---- MODULE Spec2Model ----
(***************************************************************************)
(* didyoumean: the matching engine of src/lib.rs (edit_distance,           *)
(* insert_and_shift) and the top-N loop of run_app in src/main.rs.         *)
(*                                                                         *)
(* A &str is modelled by its UTF-8 bytes (a sequence of 0..255), a         *)
(* Vec<char> by a sequence of code points, a Vec<T> by a sequence whose    *)
(* Rust index k is the TLA+ index k + 1.  A call that can panic returns a  *)
(* record whose field ok is FALSE when it panicked.                        *)
(***************************************************************************)
EXTENDS Integers, Sequences, FiniteSets

VARIABLES
    pc,            \* "call" | "returned" | "run" | "panic"
    search_term,   \* edit_distance's first argument / run_app's search_term
    known_term,    \* edit_distance's second argument
    dist,          \* the value edit_distance returned last (run_app's dist)
    number,        \* args.number
    dictionary,    \* the lines of word_list the loop has consumed, in order
    top_n_words,   \* Vec<&str>: each slice by its line in word_list, 0 for ""
    top_n_dists,   \* Vec<usize>
    list,          \* insert_and_shift's list
    index,         \* insert_and_shift's index, of the last call
    element        \* insert_and_shift's element, of the last call

vars == <<pc, search_term, known_term, dist, number, dictionary,
          top_n_words, top_n_dists, list, index, element>>

----------------------------------------------------------------------------
(* Bounds of the model. *)

\* longest string, in code points, given to edit_distance
MaxLen == 3
\* most dictionary lines the loop consumes
MaxStream == 4
\* largest args.number
MaxN == 2
\* longest list given to insert_and_shift
MaxListLen == 3

(* Program constants. *)

\* the factor of the seed of top_n_dists, search_term.len() * 10
SentinelFactor == 10
\* ' ', the value of search_char_i_minus_two when i = 1
Space == 32
\* usize::MAX, what 0 - 1 wraps to without overflow checks.  TLC's integers
\* are 32 bits wide, so the word is modelled as 31 bits: the value is only
\* ever compared with indices and lengths, all far below it.
UsizeMax == 2147483647

\* code points of the strings given to edit_distance: a, b, c and e-acute,
\* whose UTF-8 encoding is two bytes long
Alphabet == {97, 98, 99, 233}

----------------------------------------------------------------------------
(* Strings and vectors. *)

min(x, y) == IF x < y THEN x ELSE y

\* all sequences over S of length at most n
Seqs(S, n) == UNION {[1..k -> S] : k \in 0..n}

\* char::encode_utf8: the UTF-8 bytes of one code point
encode_utf8(c) ==
    IF c < 128 THEN <<c>>
    ELSE IF c < 2048 THEN <<192 + (c \div 64), 128 + (c % 64)>>
    ELSE IF c < 65536 THEN
        <<224 + (c \div 4096), 128 + ((c \div 64) % 64), 128 + (c % 64)>>
    ELSE <<240 + (c \div 262144), 128 + ((c \div 4096) % 64),
           128 + ((c \div 64) % 64), 128 + (c % 64)>>

RECURSIVE Utf8(_)
\* the &str holding the code points cps
Utf8(cps) ==
    IF cps = <<>> THEN <<>> ELSE encode_utf8(Head(cps)) \o Utf8(Tail(cps))

RECURSIVE chars(_)
\* str::chars().collect(): the code points of a (valid) UTF-8 byte sequence
chars(s) ==
    IF s = <<>> THEN <<>>
    ELSE IF s[1] < 128 THEN <<s[1]>> \o chars(SubSeq(s, 2, Len(s)))
    ELSE IF s[1] < 224 THEN
        <<(s[1] - 192) * 64 + (s[2] - 128)>> \o chars(SubSeq(s, 3, Len(s)))
    ELSE IF s[1] < 240 THEN
        <<(s[1] - 224) * 4096 + (s[2] - 128) * 64 + (s[3] - 128)>>
            \o chars(SubSeq(s, 4, Len(s)))
    ELSE <<(s[1] - 240) * 262144 + (s[2] - 128) * 4096
             + (s[3] - 128) * 64 + (s[4] - 128)>>
            \o chars(SubSeq(s, 5, Len(s)))

\* v[k] is in range
InBounds(v, k) == k >= 0 /\ k < Len(v)
\* v[k], Rust's index
Idx(v, k) == v[k + 1]
\* v with v[k] = x
Put(v, k, x) == [v EXCEPT ![k + 1] = x]

\* a - b on usize: a panic with overflow checks (a debug build), wrapping
\* without (a release build)
usize_sub(a, b, overflow_checks) ==
    IF a >= b THEN [ok |-> TRUE, val |-> a - b]
    ELSE IF overflow_checks THEN [ok |-> FALSE, val |-> 0]
    ELSE [ok |-> TRUE, val |-> UsizeMax - (b - a) + 1]

----------------------------------------------------------------------------
(* edit_distance, src/lib.rs *)

\* vec![0; m * n]
new_mat(m, n) == [k \in 1..(m * n) |-> 0]

\* for i in 1..n { mat[i * m] = i; }
init_col(mat, n, m) ==
    [k \in 1..Len(mat) |->
        IF (k - 1) % m = 0 /\ (k - 1) \div m \in 1..(n - 1)
        THEN (k - 1) \div m ELSE mat[k]]

\* for i in 1..m { mat[i] = i; }
init_row(mat, m) ==
    [k \in 1..Len(mat) |-> IF (k - 1) \in 1..(m - 1) THEN k - 1 ELSE mat[k]]

\* the substitution cost
sub_cost(c, k) == IF c = k THEN 0 ELSE 1

\* a mutant of is_transposition: the relaxation is never applied
is_transposition_never(i, j, c1, c2, known_chars) == FALSE

\* the guard of the transposition relaxation
is_transposition(i, j, c1, c2, known_chars) ==
    /\ i > 1
    /\ j > 1
    /\ c1 = Idx(known_chars, j - 2)
    /\ c2 = Idx(known_chars, j - 1)

RECURSIVE inner_loop(_, _, _, _, _, _, _)
\* for j in 1..m { ... }, from j on; c1 and c2 are search_char_i_minus_one
\* and search_char_i_minus_two
inner_loop(mat, i, j, m, c1, c2, known_chars) ==
    IF j >= m THEN [ok |-> TRUE, mat |-> mat]
    ELSE IF ~InBounds(known_chars, j - 1) THEN [ok |-> FALSE, mat |-> mat]
    ELSE IF ~InBounds(mat, i * m + j) THEN [ok |-> FALSE, mat |-> mat]
    ELSE
        LET cell ==
                min(Idx(mat, (i - 1) * m + j - 1)
                        + sub_cost(c1, Idx(known_chars, j - 1)),
                    min(Idx(mat, (i - 1) * m + j) + 1,
                        Idx(mat, i * m + j - 1) + 1))
            mat2 == Put(mat, i * m + j, cell)
            mat3 ==
                IF is_transposition(i, j, c1, c2, known_chars)
                THEN Put(mat2, i * m + j,
                         min(Idx(mat2, i * m + j),
                             Idx(mat2, (i - 2) * m + j - 2) + 1))
                ELSE mat2
        IN  inner_loop(mat3, i, j + 1, m, c1, c2, known_chars)

RECURSIVE outer_loop(_, _, _, _, _, _)
\* for i in 1..n { ... }, from i on
outer_loop(mat, i, n, m, search_chars, known_chars) ==
    IF i >= n THEN [ok |-> TRUE, mat |-> mat]
    ELSE IF ~InBounds(search_chars, i - 1) THEN [ok |-> FALSE, mat |-> mat]
    ELSE
        LET c1 == Idx(search_chars, i - 1)
            c2 == IF i > 1 THEN Idx(search_chars, i - 2) ELSE Space
            row == inner_loop(mat, i, 1, m, c1, c2, known_chars)
        IN  IF ~row.ok THEN row
            ELSE outer_loop(row.mat, i + 1, n, m, search_chars, known_chars)

\* edit_distance(search_term, known_term): [ok |-> FALSE] when it panics
edit_distance(st, kt) ==
    LET n == Len(st) + 1
        m == Len(kt) + 1
        search_chars == chars(st)
        known_chars == chars(kt)
        mat == init_row(init_col(new_mat(m, n), n, m), m)
        done == outer_loop(mat, 1, n, m, search_chars, known_chars)
    IN  IF done.ok /\ InBounds(done.mat, m * n - 1)
        THEN [ok |-> TRUE, val |-> Idx(done.mat, m * n - 1)]
        ELSE [ok |-> FALSE, val |-> 0]

----------------------------------------------------------------------------
(* Calls of edit_distance on every pair of strings within the bounds. *)

\* the strings edit_distance is called on
Strings == {Utf8(cps) : cps \in Seqs(Alphabet, MaxLen)}

InitDist ==
    /\ pc = "call"
    /\ search_term \in Strings
    /\ known_term \in Strings
    /\ dist = 0
    /\ number = 0
    /\ dictionary = <<>>
    /\ top_n_words = <<>>
    /\ top_n_dists = <<>>
    /\ list = <<>>
    /\ index = 0
    /\ element = 0

\* let dist = edit_distance(search_term, known_term)
Call ==
    /\ pc = "call"
    /\ LET r == edit_distance(search_term, known_term)
       IN  /\ pc' = IF r.ok THEN "returned" ELSE "panic"
           /\ dist' = r.val
    /\ UNCHANGED <<search_term, known_term, number, dictionary, top_n_words,
                   top_n_dists, list, index, element>>

NextDist == Call

SpecDist == InitDist /\ [][NextDist]_vars

----------------------------------------------------------------------------
(* insert_and_shift, src/lib.rs *)

\* a mutant of insert_and_shift: the list is not truncated after the insert
insert_and_shift_grows(l, i, e, overflow_checks) ==
    IF i > Len(l) - 1 THEN [ok |-> TRUE, list |-> l]
    ELSE [ok |-> TRUE,
          list |-> SubSeq(l, 1, i) \o <<e>> \o SubSeq(l, i + 1, Len(l))]

\* insert_and_shift(&mut l, i, e): the list afterwards, [ok |-> FALSE] when
\* the call panics
insert_and_shift(l, i, e, overflow_checks) ==
    LET last == usize_sub(Len(l), 1, overflow_checks)   \* list.len() - 1
    IN  IF ~last.ok THEN [ok |-> FALSE, list |-> l]
        ELSE IF i > last.val THEN [ok |-> TRUE, list |-> l]
        \* list.insert(index, element) panics when index > len
        ELSE IF i > Len(l) THEN [ok |-> FALSE, list |-> l]
        ELSE
            LET inserted == SubSeq(l, 1, i) \o <<e>> \o SubSeq(l, i + 1, Len(l))
                \* list.truncate(list.len() - 1)
                keep == usize_sub(Len(inserted), 1, overflow_checks)
            IN  IF ~keep.ok THEN [ok |-> FALSE, list |-> inserted]
                ELSE [ok |-> TRUE,
                      list |-> SubSeq(inserted, 1, min(keep.val, Len(inserted)))]

----------------------------------------------------------------------------
(* Calls of insert_and_shift on every list within the bounds. *)

\* the elements of the lists
Elements == {0, 1, 2}

InitShift ==
    /\ pc = "run"
    /\ list \in Seqs(Elements, MaxListLen)
    /\ index = 0
    /\ element = 0
    /\ search_term = <<>>
    /\ known_term = <<>>
    /\ dist = 0
    /\ number = 0
    /\ dictionary = <<>>
    /\ top_n_words = <<>>
    /\ top_n_dists = <<>>

\* insert_and_shift(&mut list, i, e), built with or without overflow checks
InsertAndShift(i, e) ==
    /\ pc = "run"
    /\ index' = i
    /\ element' = e
    /\ \E overflow_checks \in BOOLEAN :
           LET r == insert_and_shift(list, i, e, overflow_checks)
           IN  /\ pc' = IF r.ok THEN "run" ELSE "panic"
               /\ list' = r.list
    /\ UNCHANGED <<search_term, known_term, dist, number, dictionary,
                   top_n_words, top_n_dists>>

NextShift == \E i \in 0..(MaxListLen + 1), e \in Elements : InsertAndShift(i, e)

SpecShift == InitShift /\ [][NextShift]_vars

----------------------------------------------------------------------------
(* The top-N loop of run_app, src/main.rs *)

\* search_term.len() * 10, the seed of top_n_dists
Sentinel(st) == Len(st) * SentinelFactor

\* the &str slice a top_n_words entry holds: line w of word_list, "" for 0
WordAt(w) == IF w = 0 THEN <<>> ELSE dictionary[w]

\* a mutant of Closer: a candidate as far as the seated one takes its slot
CloserOrEqual(d, seated) == d <= seated

\* dist < top_n_dists[i], the test of the scan
Closer(d, seated) == d < seated

RECURSIVE scan(_, _, _, _, _, _, _)
\* for i in 0..args.number { if dist < top_n_dists[i] { ...; break; } },
\* from i on, offering line w of word_list at distance d
scan(words, dists, i, n, d, w, overflow_checks) ==
    IF i >= n THEN [ok |-> TRUE, words |-> words, dists |-> dists]
    ELSE IF ~InBounds(dists, i)
    THEN [ok |-> FALSE, words |-> words, dists |-> dists]
    ELSE IF Closer(d, Idx(dists, i)) THEN
        LET ds == insert_and_shift(dists, i, d, overflow_checks)
            ws == insert_and_shift(words, i, w, overflow_checks)
        IN  IF ~ds.ok THEN [ok |-> FALSE, words |-> words, dists |-> ds.list]
            ELSE [ok |-> ws.ok, words |-> ws.list, dists |-> ds.list]
    ELSE scan(words, dists, i + 1, n, d, w, overflow_checks)

\* the search terms and the dictionary lines of the model, as code points:
\* "", "a", "b", "ab", "ba", "abc" and the two-byte e-acute
Terms == {<<>>, <<97>>, <<98>>, <<97, 98>>, <<98, 97>>, <<97, 98, 99>>, <<233>>}
Words == {Utf8(cps) : cps \in Terms}

\* the state before the loop: vec![""; args.number] and
\* vec![search_term.len() * 10; args.number]
Init ==
    /\ pc = "run"
    /\ search_term \in Words
    /\ number \in 0..MaxN
    /\ dictionary = <<>>
    /\ top_n_words = [k \in 1..number |-> 0]
    /\ top_n_dists = [k \in 1..number |-> Sentinel(search_term)]
    /\ dist = 0
    /\ known_term = <<>>
    /\ list = <<>>
    /\ index = 0
    /\ element = 0

\* one turn of `for word in dictionary`, on the next line of word_list,
\* built with or without overflow checks.  main.rs hands edit_distance the
\* search term's Vec<char>; lib.rs declares it on a &str, and the call is
\* modelled on the search term as lib.rs reads it.
Offer(word) ==
    /\ pc = "run"
    /\ Len(dictionary) < MaxStream
    /\ dictionary' = Append(dictionary, word)
    /\ LET r == edit_distance(search_term, word)
       IN  IF ~r.ok
           THEN /\ pc' = "panic"
                /\ UNCHANGED <<dist, top_n_words, top_n_dists>>
           ELSE /\ dist' = r.val
                /\ \E overflow_checks \in BOOLEAN :
                    \* top_n_dists[args.number - 1]
                    LET last == usize_sub(number, 1, overflow_checks)
                    IN  IF ~last.ok \/ ~InBounds(top_n_dists, last.val)
                        THEN /\ pc' = "panic"
                             /\ UNCHANGED <<top_n_words, top_n_dists>>
                        ELSE IF r.val < Idx(top_n_dists, last.val)
                        THEN LET new == scan(top_n_words, top_n_dists, 0,
                                             number, r.val,
                                             Len(dictionary) + 1,
                                             overflow_checks)
                             IN  /\ pc' = IF new.ok THEN "run" ELSE "panic"
                                 /\ top_n_words' = new.words
                                 /\ top_n_dists' = new.dists
                        ELSE /\ pc' = "run"
                             /\ UNCHANGED <<top_n_words, top_n_dists>>
    /\ UNCHANGED <<search_term, known_term, number, list, index, element>>

Next == \E word \in Words : Offer(word)

Spec == Init /\ [][Next]_vars

----------------------------------------------------------------------------
(* Reference distances, over code points. *)

\* the strings one edit away from s: one code point of alpha inserted (up to
\* length maxlen), one deleted, one replaced, or one adjacent pair swapped
OneEdit(s, alpha, maxlen) ==
    LET n == Len(s)
    IN  {SubSeq(s, 1, k - 1) \o SubSeq(s, k + 1, n) : k \in 1..n}
        \cup {[s EXCEPT ![k] = c] : k \in 1..n, c \in alpha}
        \cup {[s EXCEPT ![k] = s[k + 1], ![k + 1] = s[k]] : k \in 1..(n - 1)}
        \cup (IF n < maxlen
              THEN {SubSeq(s, 1, k) \o <<c>> \o SubSeq(s, k + 1, n) :
                        k \in 0..n, c \in alpha}
              ELSE {})

RECURSIVE Ball(_, _, _, _)
\* the strings at most k edits away from s
Ball(s, k, alpha, maxlen) ==
    IF k = 0 THEN {s}
    ELSE LET prev == Ball(s, k - 1, alpha, maxlen)
         IN  prev \cup UNION {OneEdit(t, alpha, maxlen) : t \in prev}

\* the length of a shortest sequence of insertions, deletions, substitutions
\* and adjacent transpositions that turns a into b.  A shortest sequence
\* needs no code point outside a and b and, with its deletions done first
\* and its insertions last, no string longer than the longer of a and b.
MinEdits(a, b) ==
    LET alpha == {a[k] : k \in 1..Len(a)} \cup {b[k] : k \in 1..Len(b)}
        maxlen == IF Len(a) > Len(b) THEN Len(a) ELSE Len(b)
    IN  CHOOSE k \in 0..maxlen :
            /\ b \in Ball(a, k, alpha, maxlen)
            /\ \A h \in 0..(k - 1) : b \notin Ball(a, h, alpha, maxlen)

RECURSIVE RestrictedEdits(_, _)
\* the least number of edits that turn a into b when the strings are edited
\* front to back and no code point is edited twice (the restricted,
\* "optimal string alignment" distance): a swapped pair is left as swapped
RestrictedEdits(a, b) ==
    IF a = <<>> THEN Len(b)
    ELSE IF b = <<>> THEN Len(a)
    ELSE
        LET del == 1 + RestrictedEdits(Tail(a), b)
            ins == 1 + RestrictedEdits(a, Tail(b))
            sub == (IF Head(a) = Head(b) THEN 0 ELSE 1)
                       + RestrictedEdits(Tail(a), Tail(b))
            one == min(sub, min(del, ins))
        IN  IF Len(a) > 1 /\ Len(b) > 1 /\ a[1] = b[2] /\ a[2] = b[1]
            THEN min(one, 1 + RestrictedEdits(Tail(Tail(a)), Tail(Tail(b))))
            ELSE one

\* every byte of s is a one-byte code point
IsAscii(s) == \A k \in 1..Len(s) : s[k] < 128

\* b is a with one adjacent pair of distinct code points swapped
IsSwap(a, b) ==
    \E k \in 1..(Len(a) - 1) :
        /\ a[k] # a[k + 1]
        /\ b = [a EXCEPT ![k] = a[k + 1], ![k + 1] = a[k]]

----------------------------------------------------------------------------
(* Claims about edit_distance, checked under SpecDist. *)

C2_NeverPanics == pc # "panic"

\* C8: against the empty string the distance is the number of code points
\* of the other string, in both argument orders.
C8_EmptyIsLength ==
    /\ (pc # "call" /\ search_term = <<>>) =>
           (pc = "returned" /\ dist = Len(chars(known_term)))
    /\ (pc # "call" /\ known_term = <<>>) =>
           (pc = "returned" /\ dist = Len(chars(search_term)))

\* C9: edit_distance is symmetric: the call with the arguments exchanged
\* returns what this call returned.
C9_Symmetric ==
    pc = "returned" =>
        LET back == edit_distance(known_term, search_term)
        IN  back.ok /\ back.val = dist

\* C9 on strings of one-byte code points only (it holds there).
C9_SymmetricOnAscii ==
    (pc # "call" /\ IsAscii(search_term) /\ IsAscii(known_term)) =>
        LET back == edit_distance(known_term, search_term)
        IN  pc = "returned" /\ back.ok /\ back.val = dist

----------------------------------------------------------------------------
(* Claims about insert_and_shift, checked under SpecShift. *)

\* what C10 says of a call with index < len(list): the length is kept, the
\* element is at index, the entries before index stay, those from index to
\* len - 2 move one slot towards the tail, the last one is dropped
ShiftedIn(old, new, i, e) ==
    /\ Len(new) = Len(old)
    /\ Idx(new, i) = e
    /\ \A k \in 0..(i - 1) : Idx(new, k) = Idx(old, k)
    /\ \A k \in i..(Len(old) - 2) : Idx(new, k + 1) = Idx(old, k)

\* C10: a call with index < len(list) inserts at index preserving length;
\* a call with index >= len(list), the empty list included, leaves the list
\* unchanged and does not fail.
C10_InsertPreservingLength ==
    [][/\ index' < Len(list) =>
              (pc' = "run" /\ ShiftedIn(list, list', index', element'))
       /\ index' >= Len(list) => (pc' = "run" /\ list' = list)]_vars

\* C10 on the lists that are not empty (it holds there).
C10_OnNonEmptyLists ==
    [][list # <<>> =>
         /\ pc' = "run"
         /\ index' < Len(list) => ShiftedIn(list, list', index', element')
         /\ index' >= Len(list) => list' = list]_vars

----------------------------------------------------------------------------
(* Claims about the top-N loop, checked under Spec. *)

\* the distance of every line offered so far, in stream order
StreamDists ==
    [k \in 1..Len(dictionary) |->
        edit_distance(search_term, dictionary[k]).val]

RECURSIVE InsertSorted(_, _)
\* the non-decreasing sequence sorted with x added
InsertSorted(sorted, x) ==
    IF sorted = <<>> THEN <<x>>
    ELSE IF x <= Head(sorted) THEN <<x>> \o sorted
    ELSE <<Head(sorted)>> \o InsertSorted(Tail(sorted), x)

RECURSIVE Sorted(_)
\* the entries of ds in non-decreasing order
Sorted(ds) ==
    IF ds = <<>> THEN <<>> ELSE InsertSorted(Sorted(Tail(ds)), Head(ds))

\* the shortlist holds the N smallest distances of the stream, and the
\* seed only in the slots there was no candidate for
HoldsSmallest ==
    LET smallest == Sorted(StreamDists)
        k == min(number, Len(dictionary))
    IN  /\ Len(top_n_dists) = number
        /\ Len(top_n_words) = number
        /\ \A i \in 1..k : top_n_dists[i] = smallest[i]
        /\ \A i \in (k + 1)..number : top_n_dists[i] = Sentinel(search_term)

\* C3: after any sequence of offers to a shortlist of capacity N >= 1 the
\* tracked distances are the N smallest distances of the stream, a slot
\* holding the seed only when fewer than N candidates were offered.
C3_HoldsNSmallest == (pc = "run" /\ number >= 1) => HoldsSmallest

\* C3 while every distance offered is below the seed (it holds there).
C3_WhileBelowSentinel ==
    (/\ pc = "run"
     /\ number >= 1
     /\ \A k \in 1..Len(dictionary) : StreamDists[k] < Sentinel(search_term))
        => HoldsSmallest

\* C4: the shortlist keeps its shape: both vectors have length N, the
\* distances are non-decreasing, and every slot that holds a dictionary
\* line holds it with the distance edit_distance computes for it.
C4_ShortlistShape ==
    /\ Len(top_n_words) = number
    /\ Len(top_n_dists) = number
    /\ \A i \in 1..(Len(top_n_dists) - 1) : top_n_dists[i] <= top_n_dists[i + 1]
    /\ \A i \in 1..Len(top_n_words) :
           top_n_words[i] # 0 =>
               /\ top_n_words[i] \in 1..Len(dictionary)
               /\ i <= Len(top_n_dists)
               /\ edit_distance(search_term, WordAt(top_n_words[i]))
                      = [ok |-> TRUE, val |-> top_n_dists[i]]

\* C4's case: a full shortlist of two dictionary lines at different
\* distances, the nearer one offered later and shifted in front, after
\* another candidate was turned away or evicted.
C4_Witness ==
    /\ pc = "run"
    /\ number = 2
    /\ Len(dictionary) > number
    /\ top_n_words[1] # 0
    /\ top_n_words[2] # 0
    /\ top_n_words[1] > top_n_words[2]
    /\ top_n_dists[1] < top_n_dists[2]

\* C5: the seed len(query) * 10 is above the distance of every candidate,
\* so a candidate offered while a slot still holds the seed is seated: the
\* first N candidates all are.
C5_SentinelAboveDistances ==
    (pc = "run" /\ dictionary # <<>>) =>
        /\ dist < Sentinel(search_term)
        /\ number >= 1 =>
               Cardinality({i \in 1..Len(top_n_words) : top_n_words[i] # 0})
                   = min(number, Len(dictionary))

\* C6: with N = 0 the loop goes through any stream (here: of strings of
\* one-byte code points) without a panic, and the shortlist stays empty.
C6_ZeroIsNoOp ==
    (/\ number = 0
     /\ IsAscii(search_term)
     /\ \A k \in 1..Len(dictionary) : IsAscii(dictionary[k]))
        => (pc = "run" /\ top_n_words = <<>> /\ top_n_dists = <<>>)

\* C7: an offer at distance d leaves every seated entry at distance <= d
\* where it is; an offer at the distance of the last slot changes nothing;
\* and of two seated candidates at the same distance the one that came
\* first in the stream has the lower index.
C7_SeatedStay ==
    /\ [][/\ \A i \in 1..Len(top_n_dists) :
                 (dictionary' # dictionary /\ top_n_dists[i] <= dist') =>
                     /\ i <= Len(top_n_dists')
                     /\ i <= Len(top_n_words')
                     /\ top_n_dists'[i] = top_n_dists[i]
                     /\ top_n_words'[i] = top_n_words[i]
          /\ (/\ dictionary' # dictionary
              /\ pc' = "run"
              /\ number >= 1
              /\ dist' = top_n_dists[number]) =>
                 UNCHANGED <<top_n_words, top_n_dists>>]_vars
    /\ [](\A i, j \in 1..Len(top_n_words) :
              (/\ i < j
               /\ top_n_words[i] # 0
               /\ top_n_words[j] # 0
               /\ top_n_dists[i] = top_n_dists[j]) =>
                  top_n_words[i] < top_n_words[j])

\* C7's case: two candidates seated at the same distance, the earlier one
\* in front, and the last line offered, at that same distance, turned away.
C7_Witness ==
    /\ pc = "run"
    /\ number = 2
    /\ top_n_words[1] # 0
    /\ top_n_words[2] # 0
    /\ top_n_words[1] < top_n_words[2]
    /\ top_n_dists[1] = top_n_dists[2]
    /\ dist = top_n_dists[2]
    /\ Len(dictionary) \notin {top_n_words[1], top_n_words[2]}

====
